---- MODULE Spec2Model ----
(***************************************************************************)
(* Risk scoring and continuous monitoring engine of the pump.fun risk      *)
(* analyzer (backend/services/risk_analyzer.py, backend/main.py).          *)
(*                                                                         *)
(* Numbers.  Scores, weights and confidences are kept in hundredths        *)
(* (1.0 is 100, 0.25 is 25).  A product score*weight is therefore in       *)
(* ten-thousandths (0.45 is 4500).  Quotients are kept as exact fractions  *)
(* [num, den] and compared by cross-multiplication; binary floating-point  *)
(* rounding is not modelled.                                               *)
(***************************************************************************)
EXTENDS Integers, Sequences, FiniteSets, TLC

VARIABLES
    monitoring_active,  \* RiskAnalyzer.monitoring_active
    pc,                 \* position of each start_monitoring() task
    tokens,             \* tokens_to_monitor of each task's current iteration
    idx,                \* number of addresses the for-loop has consumed
    last,               \* history: what the for-loop body did for the latest address
    processed,          \* history, per task: how each step of this iteration ended
    delay,              \* argument of the asyncio.sleep a task is suspended in
    iterations,         \* iterations begun so far, all tasks together
    stopRequested,      \* history: stop_monitoring() ran, no create_task since
    alert_log,          \* history, per address and alert type: the create_alert calls
                        \* of the successful iterations that met the rule in a row
    analysis,           \* one analyze_token() call
    giniCall,           \* one _calculate_gini_coefficient() call
    scoreCall,          \* one _calculate_risk_score() call
    alertCall,          \* one check_for_alerts() call
    confCall,           \* one _calculate_confidence() call
    factorCall          \* one call of a _calculate_*_risk() factor function

vars == <<monitoring_active, pc, tokens, idx, last, processed, delay,
          iterations, stopRequested, alert_log, analysis, giniCall, scoreCall, alertCall,
          confCall, factorCall>>

monVars == <<monitoring_active, pc, tokens, idx, last, processed, delay,
             iterations, stopRequested, alert_log>>

callVars == <<analysis, giniCall, scoreCall, alertCall, confCall, factorCall>>

None == "None"

\* Optional[int]: None is the empty sequence, a number d is <<d>>
NoDays == <<>>

Days(opt) == opt[1]

-----------------------------------------------------------------------------
(* Bounds of the model                                                     *)

MaxGiniLen == 5

MaxTracked == 2

MaxTasks == 2

MaxIterations == 2

\* bits of mantissa of the modelled floats
MantissaBits == 8

-----------------------------------------------------------------------------
(* Sequence helpers (Python built-ins sum, sorted, list.sort, slicing)     *)

RECURSIVE SumSeq(_)
SumSeq(s) == IF s = <<>> THEN 0 ELSE Head(s) + SumSeq(Tail(s))

\* insert x into the ascending sequence s, after the elements equal to it
RECURSIVE InsertAsc(_, _)
InsertAsc(x, s) ==
    IF s = <<>> THEN <<x>>
    ELSE IF x < Head(s) THEN <<x>> \o s
    ELSE <<Head(s)>> \o InsertAsc(x, Tail(s))

RECURSIVE SortedAsc(_)
SortedAsc(s) == IF s = <<>> THEN <<>> ELSE InsertAsc(s[Len(s)], SortedAsc(SubSeq(s, 1, Len(s) - 1)))

Reverse(s) == [i \in 1..Len(s) |-> s[Len(s) + 1 - i]]

\* s[:k]
Prefix(s, k) == SubSeq(s, 1, IF Len(s) < k THEN Len(s) ELSE k)

SeqsUpTo(S, n) == UNION {[1..k -> S] : k \in 0..n}

-----------------------------------------------------------------------------
(* _calculate_gini_coefficient                                             *)

\* cumsum after the enumerate loop: sum of value * (n - i), i 0-indexed
RECURSIVE GiniCumsum(_, _, _)
GiniCumsum(sorted_values, n, i) ==
    IF i >= n THEN 0
    ELSE sorted_values[i + 1] * (n - i) + GiniCumsum(sorted_values, n, i + 1)

\* The return value as the exact fraction num/den, or the ZeroDivisionError
\* that the final division raises when the values sum to 0.
calculate_gini_coefficient(values) ==
    IF Len(values) < 2 THEN [raised |-> FALSE, num |-> 0, den |-> 1]
    ELSE LET sorted_values == SortedAsc(values)
             n == Len(sorted_values)
             cumsum == GiniCumsum(sorted_values, n, 0)
             total == SumSeq(sorted_values)
         IN  IF n * total = 0
             THEN [raised |-> TRUE, num |-> 0, den |-> 1]
             ELSE [raised |-> FALSE,
                   num |-> 2 * cumsum * n - (n + 1) * (n * total),
                   den |-> (n * total) * n]

GiniBalances == {0, 1, 2, 20, 96}

GiniInputs == SeqsUpTo(GiniBalances, MaxGiniLen)

NoCall == [called |-> FALSE]

\* a call with any of the inputs, not yet executed
GiniInit == giniCall \in {[called |-> FALSE, values |-> values] : values \in GiniInputs}

GiniCall ==
    /\ ~giniCall.called
    /\ "values" \in DOMAIN giniCall
    /\ giniCall' = [called |-> TRUE, values |-> giniCall.values,
                    result |-> calculate_gini_coefficient(giniCall.values)]
    /\ UNCHANGED <<monVars, analysis, scoreCall, alertCall, confCall, factorCall>>

GiniNext == GiniCall

-----------------------------------------------------------------------------
(* _calculate_gini_coefficient in binary floating point.  A float is the   *)
(* record [m, e] of value m * 2^e, with m = 0 or m odd, and |m| below      *)
(* 2^MantissaBits.  Every operation returns the exact result rounded to    *)
(* the nearest float, ties to even, as IEEE 754 does; binary64 has a       *)
(* mantissa of 53 bits, the model one of MantissaBits.  Exponents are not  *)
(* bounded: overflow and underflow are not modelled.                       *)

RECURSIVE Pow2(_)
Pow2(k) == IF k <= 0 THEN 1 ELSE 2 * Pow2(k - 1)

\* the number of bits of the natural number M
RECURSIVE BitLength(_)
BitLength(M) == IF M = 0 THEN 0 ELSE 1 + BitLength(M \div 2)

\* m * 2^e with the factors of two moved into the exponent
RECURSIVE Normalized(_, _)
Normalized(m, e) ==
    IF m = 0 THEN [m |-> 0, e |-> 0]
    ELSE IF m % 2 = 0 THEN Normalized(m \div 2, e + 1)
    ELSE [m |-> m, e |-> e]

\* the float nearest to M * 2^e, for a natural number M
RoundNat(M, e) ==
    LET k == BitLength(M) - MantissaBits
    IN  IF k <= 0 THEN Normalized(M, e)
        ELSE LET q == M \div Pow2(k)
                 r == M % Pow2(k)
                 half == Pow2(k - 1)
                 up == r > half \/ (r = half /\ q % 2 = 1)
             IN  Normalized(q + (IF up THEN 1 ELSE 0), e + k)

FNeg(a) == [m |-> 0 - a.m, e |-> a.e]

\* the float nearest to M * 2^e, for an integer M
FRound(M, e) == IF M < 0 THEN FNeg(RoundNat(0 - M, e)) ELSE RoundNat(M, e)

\* float(i) for an int i
FromInt(i) == FRound(i, 0)

FZero == [m |-> 0, e |-> 0]

\* the integer a / 2^e, for an exponent e not above that of a
Scaled(a, e) == a.m * Pow2(a.e - e)

MinExp(a, b) == IF a.m = 0 THEN b.e ELSE IF b.m = 0 THEN a.e
                ELSE IF a.e < b.e THEN a.e ELSE b.e

FAdd(a, b) == LET e == MinExp(a, b) IN FRound(Scaled(a, e) + Scaled(b, e), e)

FSub(a, b) == FAdd(a, FNeg(b))

FMul(a, b) == FRound(a.m * b.m, a.e + b.e)

FLess(a, b) == LET e == MinExp(a, b) IN Scaled(a, e) < Scaled(b, e)

FAbs(a) == IF a.m < 0 THEN FNeg(a) ELSE a

\* a / b for b # 0: the quotient is taken with MantissaBits + 3 bits or
\* more and a sticky bit for the remainder, and then rounded
FDiv(a, b) ==
    LET shift == 2 * MantissaBits + 2
        A == (IF a.m < 0 THEN 0 - a.m ELSE a.m) * Pow2(shift)
        B == IF b.m < 0 THEN 0 - b.m ELSE b.m
        M == 2 * (A \div B) + (IF A % B # 0 THEN 1 ELSE 0)
        quotient == RoundNat(M, a.e - b.e - shift - 1)
    IN  IF (a.m < 0) # (b.m < 0) THEN FNeg(quotient) ELSE quotient

\* sorted(values) on floats
RECURSIVE FInsertAsc(_, _)
FInsertAsc(x, s) ==
    IF s = <<>> THEN <<x>>
    ELSE IF FLess(x, Head(s)) THEN <<x>> \o s
    ELSE <<Head(s)>> \o FInsertAsc(x, Tail(s))

RECURSIVE FSortedAsc(_)
FSortedAsc(s) ==
    IF s = <<>> THEN <<>> ELSE FInsertAsc(s[Len(s)], FSortedAsc(SubSeq(s, 1, Len(s) - 1)))

\* the built-in sum up to Python 3.11: the floats added from left to right
RECURSIVE NaiveSum(_, _)
NaiveSum(s, acc) == IF s = <<>> THEN acc ELSE NaiveSum(Tail(s), FAdd(acc, Head(s)))

\* the built-in sum from Python 3.12 on: Neumaier's compensated summation,
\* hi the running sum and lo the running compensation
RECURSIVE CompensatedSum(_, _, _)
CompensatedSum(s, hi, lo) ==
    IF s = <<>> THEN (IF lo.m # 0 THEN FAdd(hi, lo) ELSE hi)
    ELSE LET x == Head(s)
             t == FAdd(hi, x)
             c == IF ~FLess(FAbs(hi), FAbs(x))
                  THEN FAdd(FSub(hi, t), x)
                  ELSE FAdd(FSub(x, t), hi)
         IN  CompensatedSum(Tail(s), t, FAdd(lo, c))

\* sum(sorted_values) as the interpreter at hand computes it
FloatSum(s, compensated) ==
    IF compensated THEN CompensatedSum(s, FZero, FZero) ELSE NaiveSum(s, FZero)

\* a cumsum that weighs the value at position i by n - i - 1
RECURSIVE FloatCumsumOneLess(_, _, _, _)
FloatCumsumOneLess(sorted_values, n, i, cumsum) ==
    IF i >= n THEN cumsum
    ELSE FloatCumsumOneLess(sorted_values, n, i + 1,
                            FAdd(cumsum, FMul(sorted_values[i + 1], FromInt(n - i - 1))))

\* cumsum after the enumerate loop, each product and each sum rounded
RECURSIVE FloatCumsum(_, _, _, _)
FloatCumsum(sorted_values, n, i, cumsum) ==
    IF i >= n THEN cumsum
    ELSE FloatCumsum(sorted_values, n, i + 1,
                     FAdd(cumsum, FMul(sorted_values[i + 1], FromInt(n - i))))

\* The return value as a float, or the ZeroDivisionError of the division.
calculate_gini_coefficient_float(values, compensated) ==
    IF Len(values) < 2 THEN [raised |-> FALSE, value |-> FZero]
    ELSE LET sorted_values == FSortedAsc(values)
             n == Len(sorted_values)
             cumsum == FloatCumsum(sorted_values, n, 0, FZero)
             divisor == FMul(FromInt(n), FloatSum(sorted_values, compensated))
         IN  IF divisor.m = 0
             THEN [raised |-> TRUE, value |-> FZero]
             ELSE [raised |-> FALSE,
                   value |-> FSub(FDiv(FMul(FromInt(2), cumsum), divisor),
                                  FDiv(FromInt(n + 1), FromInt(n)))]

\* balances as floats: 0, the integers 1 and 20, and three values with a
\* fraction part (31/256, 57/256, 87/256)
FloatBalances ==
    {FZero, FromInt(1), FromInt(20),
     [m |-> 31, e |-> -8], [m |-> 57, e |-> -8], [m |-> 87, e |-> -8]}

GiniFloatInputs == SeqsUpTo(FloatBalances, MaxGiniLen)

\* a call with any of the inputs, on an interpreter of either kind
GiniFloatInit ==
    giniCall \in {[called |-> FALSE, floats |-> values, compensated |-> c] :
                      values \in GiniFloatInputs, c \in BOOLEAN}

GiniFloatCall ==
    /\ ~giniCall.called
    /\ "floats" \in DOMAIN giniCall
    /\ giniCall' = [called |-> TRUE, floats |-> giniCall.floats,
                    compensated |-> giniCall.compensated,
                    result |-> calculate_gini_coefficient_float(giniCall.floats,
                                                                giniCall.compensated)]
    /\ UNCHANGED <<monVars, analysis, scoreCall, alertCall, confCall, factorCall>>

GiniFloatNext == GiniFloatCall

-----------------------------------------------------------------------------
(* RiskAnalyzer.__init__: the weight table                                 *)

FactorNames == {"holder_concentration", "liquidity_security", "volume_authenticity",
                "social_credibility", "contract_security", "price_stability",
                "trading_patterns"}

risk_weights ==
    [name \in FactorNames |->
        CASE name = "holder_concentration" -> 25
          [] name = "liquidity_security"   -> 20
          [] name = "volume_authenticity"  -> 15
          [] name = "social_credibility"   -> 10
          [] name = "contract_security"    -> 15
          [] name = "price_stability"      -> 10
          [] name = "trading_patterns"     -> 5]

\* a RiskFactor that always takes the first weight of the table
RiskFactorFirstWeight(name, description, level, score, evidence, recommendation) ==
    [name |-> name, description |-> description, level |-> level,
     score |-> score, weight |-> risk_weights["holder_concentration"],
     evidence |-> evidence, recommendation |-> recommendation]

\* models.RiskFactor.  The level in parentheses of the description is kept
\* as a field of its own; an evidence line is kept by its wording, without
\* the formatted figures.
RiskFactor(name, description, level, score, evidence, recommendation) ==
    [name |-> name, description |-> description, level |-> level,
     score |-> score, weight |-> risk_weights[name],
     evidence |-> evidence, recommendation |-> recommendation]

-----------------------------------------------------------------------------
(* The four data-collection steps.  A provider response is a record whose  *)
(* field ok says whether the awaited call returned or raised.              *)

\* _analyze_holders: percentages of the total supply, sorted by balance
\* descending; [] when the provider raises.
analyze_holders(resp) ==
    IF ~resp.ok THEN <<>>
    ELSE LET holders_data == resp.balances
             total_supply == SumSeq(holders_data)
             sorted == Reverse(SortedAsc(holders_data))
         IN  [i \in 1..Len(sorted) |->
                [balance |-> sorted[i],
                 percentage |-> IF total_supply > 0
                                THEN [num |-> sorted[i] * 100, den |-> total_supply]
                                ELSE [num |-> 0, den |-> 1]]]

\* _analyze_liquidity: zero liquidity when the provider raises.
analyze_liquidity(resp) ==
    IF ~resp.ok
    THEN [total_liquidity |-> 0, locked_percentage |-> 0, lock_expiry |-> None]
    ELSE [total_liquidity |-> resp.total_liquidity,
          locked_percentage |-> resp.locked_percentage,
          lock_expiry |-> resp.lock_expiry]

\* _analyze_volume: zero volume when the provider raises.
analyze_volume(resp) ==
    IF ~resp.ok
    THEN [total_volume_24h |-> 0, wash_trading_score |-> 0]
    ELSE [total_volume_24h |-> resp.total_volume_24h,
          wash_trading_score |-> resp.wash_trading_score]

\* _analyze_social: SocialInfo() defaults when the provider raises.
analyze_social(resp) ==
    IF ~resp.ok
    THEN [twitter_mentions |-> 0, telegram_members |-> 0,
          website_exists |-> FALSE, domain_age_days |-> NoDays]
    ELSE [twitter_mentions |-> resp.twitter_mentions,
          telegram_members |-> resp.telegram_members,
          website_exists |-> resp.website_exists,
          domain_age_days |-> resp.domain_age_days]

-----------------------------------------------------------------------------
(* The factor computations                                                 *)

Balances(holders) == [i \in 1..Len(holders) |-> holders[i].balance]

\* sum(h.percentage for h in holders[:5]) as a fraction: the percentages of
\* one holder list share their denominator.
Top5Percentage(holders) ==
    LET top == Prefix(holders, 5)
    IN  [num |-> SumSeq([i \in 1..Len(top) |-> top[i].percentage.num]),
         den |-> top[1].percentage.den]

\* _calculate_holder_concentration_risk raises what the Gini computation
\* raises: it has no try of its own.
holder_concentration_raises(holders) ==
    /\ holders # <<>>
    /\ calculate_gini_coefficient(Balances(holders)).raised

\* a critical band that takes in its threshold
HolderBandCriticalInclusive(top_5_percentage) ==
    top_5_percentage.num >= 80 * top_5_percentage.den

HolderBandCritical(top_5_percentage) == top_5_percentage.num > 80 * top_5_percentage.den

calculate_holder_concentration_risk(holders) ==
    IF holders = <<>>
    THEN RiskFactor("holder_concentration", "No holder data available", None, 100,
                    <<"No holder data found">>, None)
    ELSE LET top_5_percentage == Top5Percentage(holders)
             band == IF HolderBandCritical(top_5_percentage)
                        THEN [score |-> 100, level |-> "CRITICAL"]
                     ELSE IF top_5_percentage.num > 60 * top_5_percentage.den
                        THEN [score |-> 80, level |-> "HIGH"]
                     ELSE IF top_5_percentage.num > 40 * top_5_percentage.den
                        THEN [score |-> 60, level |-> "MEDIUM"]
                     ELSE [score |-> 30, level |-> "LOW"]
         IN  RiskFactor("holder_concentration", "Token holder concentration analysis",
                        band.level, band.score,
                        <<"Top 5 holders control", "Gini coefficient", "Total holders">>,
                        IF band.score > 60
                        THEN "Consider diversifying token distribution"
                        ELSE "Holder distribution looks healthy")

\* a liquidity computation without the test for missing liquidity
liquidity_security_risk_unguarded(liquidity) ==
    RiskFactor("liquidity_security", "Liquidity security analysis",
               IF liquidity.locked_percentage < 20 THEN "CRITICAL" ELSE "LOW",
               IF liquidity.locked_percentage < 20 THEN 100 ELSE 20,
               <<"Total liquidity", "Locked percentage", "LP token holders">>, None)

calculate_liquidity_security_risk(liquidity) ==
    IF liquidity.total_liquidity = 0
    THEN RiskFactor("liquidity_security", "No liquidity data available", None, 100,
                    <<"No liquidity found">>, None)
    ELSE LET locked_percentage == liquidity.locked_percentage
             band == IF locked_percentage < 20 THEN [score |-> 100, level |-> "CRITICAL"]
                     ELSE IF locked_percentage < 50 THEN [score |-> 80, level |-> "HIGH"]
                     ELSE IF locked_percentage < 80 THEN [score |-> 50, level |-> "MEDIUM"]
                     ELSE [score |-> 20, level |-> "LOW"]
             evidence == <<"Total liquidity", "Locked percentage", "LP token holders">>
                         \o (IF liquidity.lock_expiry # None THEN <<"Lock expires">> ELSE <<>>)
         IN  RiskFactor("liquidity_security", "Liquidity security analysis",
                        band.level, band.score, evidence,
                        IF band.score > 60
                        THEN "Ensure liquidity is properly locked"
                        ELSE "Liquidity security looks good")

calculate_volume_authenticity_risk(volume) ==
    LET wash_trading_score == volume.wash_trading_score
        band == IF wash_trading_score > 80 THEN [score |-> 100, level |-> "CRITICAL"]
                ELSE IF wash_trading_score > 60 THEN [score |-> 80, level |-> "HIGH"]
                ELSE IF wash_trading_score > 40 THEN [score |-> 50, level |-> "MEDIUM"]
                ELSE [score |-> 20, level |-> "LOW"]
    IN  RiskFactor("volume_authenticity", "Volume authenticity analysis",
                   band.level, band.score,
                   <<"24h volume", "Unique traders", "Wash trading score",
                     "Volume authenticity">>,
                   IF band.score > 60
                   THEN "Volume appears artificial - exercise caution"
                   ELSE "Volume appears organic")

calculate_social_credibility_risk(social) ==
    LET twitter == IF social.twitter_mentions > 100 THEN 30
                   ELSE IF social.twitter_mentions > 10 THEN 10 ELSE 0
        telegram == IF social.telegram_members > 1000 THEN 30
                    ELSE IF social.telegram_members > 100 THEN 10 ELSE 0
        website == IF social.website_exists THEN 20 ELSE 0
        \* "social.domain_age_days and ...": None and 0 are both falsy
        domain == IF social.domain_age_days # NoDays /\ Days(social.domain_age_days) # 0
                     /\ Days(social.domain_age_days) > 30 THEN 20 ELSE 0
        social_score == twitter + telegram + website + domain
        score == IF 100 - social_score > 0 THEN 100 - social_score ELSE 0
        level == IF score > 80 THEN "HIGH" ELSE IF score > 50 THEN "MEDIUM" ELSE "LOW"
    IN  RiskFactor("social_credibility", "Social credibility analysis", level, score,
                   <<"Twitter mentions", "Telegram members", "Website exists", "Domain age">>,
                   IF score > 60
                   THEN "Build stronger social media presence"
                   ELSE "Social credibility looks good")

\* a failed computation scored as maximal risk
FailedFactorMaximal(name, description, evidence) ==
    RiskFactor(name, description, None, 100, <<evidence>>, None)

\* the RiskFactor the three awaiting computations return from their except
FailedFactor(name, description, evidence) ==
    RiskFactor(name, description, None, 50, <<evidence>>, None)

\* a contract security factor whose evidence is the list of issues as it is
contract_security_risk_bare_evidence(resp) ==
    IF ~resp.ok
    THEN FailedFactor("contract_security", "Contract security analysis failed",
                      "Unable to analyze contract security")
    ELSE LET security_issues == resp.issues
             issue_count == Len(security_issues)
             band == IF issue_count > 5 THEN [score |-> 100, level |-> "CRITICAL"]
                     ELSE IF issue_count > 3 THEN [score |-> 80, level |-> "HIGH"]
                     ELSE IF issue_count > 1 THEN [score |-> 50, level |-> "MEDIUM"]
                     ELSE [score |-> 20, level |-> "LOW"]
         IN  RiskFactor("contract_security", "Contract security analysis",
                        band.level, band.score, security_issues,
                        IF band.score > 60
                        THEN "Address security concerns before trading"
                        ELSE "Contract security looks good")

calculate_contract_security_risk(resp) ==
    IF ~resp.ok
    THEN FailedFactor("contract_security", "Contract security analysis failed",
                      "Unable to analyze contract security")
    ELSE LET security_issues == resp.issues
             issue_count == Len(security_issues)
             band == IF issue_count > 5 THEN [score |-> 100, level |-> "CRITICAL"]
                     ELSE IF issue_count > 3 THEN [score |-> 80, level |-> "HIGH"]
                     ELSE IF issue_count > 1 THEN [score |-> 50, level |-> "MEDIUM"]
                     ELSE [score |-> 20, level |-> "LOW"]
         IN  RiskFactor("contract_security", "Contract security analysis",
                        band.level, band.score,
                        IF security_issues # <<>> THEN security_issues
                        ELSE <<"No security issues detected">>,
                        IF band.score > 60
                        THEN "Address security concerns before trading"
                        ELSE "Contract security looks good")

SumSquares(prices) == SumSeq([i \in 1..Len(prices) |-> prices[i] * prices[i]])

\* (np.std(prices) / np.mean(prices))^2 = (n*sum(p^2) - sum(p)^2) / sum(p)^2,
\* and 1.0 when the mean is not positive
VolatilitySquared(prices) ==
    LET s == SumSeq(prices)
    IN  IF s > 0
        THEN [num |-> Len(prices) * SumSquares(prices) - s * s, den |-> s * s]
        ELSE [num |-> 1, den |-> 1]

calculate_price_stability_risk(resp) ==
    IF ~resp.ok
    THEN FailedFactor("price_stability", "Price stability analysis failed",
                      "Unable to analyze price stability")
    ELSE IF Len(resp.prices) < 2
    THEN RiskFactor("price_stability", "Insufficient price data", None, 50,
                    <<"Not enough price history">>, None)
    ELSE LET v2 == VolatilitySquared(resp.prices)
             \* volatility > 0.5, 0.3, 0.1 compared on the squares
             band == IF 100 * v2.num > 25 * v2.den THEN [score |-> 100, level |-> "CRITICAL"]
                     ELSE IF 100 * v2.num > 9 * v2.den THEN [score |-> 80, level |-> "HIGH"]
                     ELSE IF 100 * v2.num > v2.den THEN [score |-> 50, level |-> "MEDIUM"]
                     ELSE [score |-> 20, level |-> "LOW"]
         IN  RiskFactor("price_stability", "Price stability analysis",
                        band.level, band.score,
                        <<"Price volatility", "Price range", "Data points">>,
                        IF band.score > 60
                        THEN "High volatility - trade with caution"
                        ELSE "Price appears stable")

calculate_trading_patterns_risk(resp) ==
    IF ~resp.ok
    THEN FailedFactor("trading_patterns", "Trading patterns analysis failed",
                      "Unable to analyze trading patterns")
    ELSE LET suspicious_patterns ==
                 (IF resp.rapid_trading THEN <<"Rapid trading detected">> ELSE <<>>)
                 \o (IF resp.coordinated_buying THEN <<"Coordinated buying detected">> ELSE <<>>)
                 \o (IF resp.wash_trading THEN <<"Wash trading detected">> ELSE <<>>)
             issue_count == Len(suspicious_patterns)
             band == IF issue_count > 2 THEN [score |-> 100, level |-> "CRITICAL"]
                     ELSE IF issue_count > 1 THEN [score |-> 80, level |-> "HIGH"]
                     ELSE IF issue_count > 0 THEN [score |-> 50, level |-> "MEDIUM"]
                     ELSE [score |-> 20, level |-> "LOW"]
         IN  RiskFactor("trading_patterns", "Trading patterns analysis",
                        band.level, band.score,
                        IF suspicious_patterns # <<>> THEN suspicious_patterns
                        ELSE <<"No suspicious patterns detected">>,
                        IF band.score > 60
                        THEN "Suspicious trading patterns detected"
                        ELSE "Trading patterns appear normal")

-----------------------------------------------------------------------------
(* ScoreAggregator: _calculate_risk_score and _calculate_confidence.       *)
(* risk_factors is a function from the factor names present to RiskFactor. *)

\* the sum of the integer-valued function f over the keys S
RECURSIVE SumOver(_, _)
SumOver(f, S) ==
    IF S = {} THEN 0
    ELSE LET k == CHOOSE x \in S : TRUE
         IN  f[k] + SumOver(f, S \ {k})

\* total_score / total_weight, or 0.5 when no weight was summed
NormalizedScore(total_score, total_weight) ==
    IF total_weight > 0 THEN [num |-> total_score, den |-> total_weight]
    ELSE [num |-> 50, den |-> 1]

\* the tier bands with their lower bounds excluded
RiskLevelOfStrict(normalized_score) ==
    IF normalized_score.num > 80 * normalized_score.den THEN "critical"
    ELSE IF normalized_score.num > 60 * normalized_score.den THEN "high"
    ELSE IF normalized_score.num > 40 * normalized_score.den THEN "medium"
    ELSE "low"

\* the tier bands on normalized_score, a fraction in hundredths
RiskLevelOf(normalized_score) ==
    IF normalized_score.num >= 80 * normalized_score.den THEN "critical"
    ELSE IF normalized_score.num >= 60 * normalized_score.den THEN "high"
    ELSE IF normalized_score.num >= 40 * normalized_score.den THEN "medium"
    ELSE "low"

calculate_risk_score(risk_factors) ==
    LET names == DOMAIN risk_factors
        total_score == SumOver([k \in names |-> risk_factors[k].score * risk_factors[k].weight],
                               names)
        total_weight == SumOver([k \in names |-> risk_factors[k].weight], names)
        normalized_score == NormalizedScore(total_score, total_weight)
    IN  [risk_score |-> normalized_score, risk_level |-> RiskLevelOf(normalized_score)]

\* a confidence that counts only the factors with evidence
ConfidenceFactorCounting(factor) == IF Len(factor.evidence) > 0 THEN 100 ELSE 0

\* 1.0 for a factor with evidence, 0.5 for one without
ConfidenceFactor(factor) == IF Len(factor.evidence) > 0 THEN 100 ELSE 50

\* sum(confidence_factors) / len(confidence_factors) in hundredths, or 0.5
calculate_confidence(risk_factors) ==
    LET names == DOMAIN risk_factors
        n == Cardinality(names)
    IN  IF n > 0
        THEN [num |-> SumOver([k \in names |-> ConfidenceFactor(risk_factors[k])], names),
              den |-> n]
        ELSE [num |-> 50, den |-> 1]

-----------------------------------------------------------------------------
(* quick_risk_check: the two-factor check of the monitoring loop.          *)
(* risk_score of a TokenRisk is in ten-thousandths, confidence in          *)
(* hundredths.                                                             *)

\* the two-factor score divided by the combined weight of the two factors,
\* as the full analysis normalises its score
QuickRiskScoreRenormalised(holder_concentration, liquidity_security) ==
    ((holder_concentration.score * holder_concentration.weight
      + liquidity_security.score * liquidity_security.weight) * 100)
    \div (holder_concentration.weight + liquidity_security.weight)

\* holder_concentration.score * weight + liquidity_security.score * weight
QuickRiskScore(holder_concentration, liquidity_security) ==
    holder_concentration.score * holder_concentration.weight
    + liquidity_security.score * liquidity_security.weight

\* the tier bands on the quick risk_score
QuickRiskLevel(risk_score) ==
    IF risk_score >= 8000 THEN "critical"
    ELSE IF risk_score >= 6000 THEN "high"
    ELSE IF risk_score >= 4000 THEN "medium"
    ELSE "low"

\* the TokenRisk returned from the except of quick_risk_check
QuickRiskFallback(token_address) ==
    [token_address |-> token_address, risk_level |-> "medium", risk_score |-> 5000,
     confidence |-> 0, factors |-> [error |-> [message |-> "float division by zero"]]]

quick_risk_check(token_address, holders_resp, liquidity_resp) ==
    LET holders == analyze_holders(holders_resp)
        liquidity == analyze_liquidity(liquidity_resp)
    IN  IF holder_concentration_raises(holders)
        THEN QuickRiskFallback(token_address)
        ELSE LET holder_concentration == calculate_holder_concentration_risk(holders)
                 liquidity_security == calculate_liquidity_security_risk(liquidity)
                 risk_score == QuickRiskScore(holder_concentration, liquidity_security)
             IN  [token_address |-> token_address,
                  risk_level |-> QuickRiskLevel(risk_score),
                  risk_score |-> risk_score,
                  confidence |-> 70,
                  factors |-> [holder_concentration |-> holder_concentration,
                               liquidity_security |-> liquidity_security]]

-----------------------------------------------------------------------------
(* check_for_alerts.  A risk is any record with risk_level and factors;    *)
(* factors is a dict of dicts.                                             *)

\* factor.get("score", 0)
GetScore(factor) == IF "score" \in DOMAIN factor THEN factor.score ELSE 0

Alert(token_address, alert_type, risk_level, severity) ==
    [token_address |-> token_address, alert_type |-> alert_type,
     risk_level |-> risk_level, severity |-> severity]

HighRiskRule(token_address, risk) ==
    IF risk.risk_level \in {"high", "critical"}
    THEN <<Alert(token_address, "high_risk", risk.risk_level,
                 IF risk.risk_level = "critical" THEN 5 ELSE 4)>>
    ELSE <<>>

\* the holder rule with its threshold included
HolderConcentrationRuleInclusive(token_address, risk) ==
    IF "holder_concentration" \in DOMAIN risk.factors
       /\ GetScore(risk.factors["holder_concentration"]) >= 80
    THEN <<Alert(token_address, "holder_concentration", "high", 4)>>
    ELSE <<>>

HolderConcentrationRule(token_address, risk) ==
    IF "holder_concentration" \in DOMAIN risk.factors
       /\ GetScore(risk.factors["holder_concentration"]) > 80
    THEN <<Alert(token_address, "holder_concentration", "high", 4)>>
    ELSE <<>>

LiquidityRule(token_address, risk) ==
    IF "liquidity_security" \in DOMAIN risk.factors
       /\ GetScore(risk.factors["liquidity_security"]) > 80
    THEN <<Alert(token_address, "liquidity_removal", "high", 4)>>
    ELSE <<>>

\* the create_alert calls the three ifs reach when none of them raises
AlertCalls(token_address, risk) ==
    HighRiskRule(token_address, risk)
    \o HolderConcentrationRule(token_address, risk)
    \o LiquidityRule(token_address, risk)

\* a check_for_alerts that leaves out the alerts the log already holds for
\* the address
check_for_alerts_deduplicating(token_address, risk, fail_at) ==
    LET IsNew(alert) == alert_log[token_address][alert.alert_type].invoked = 0
        calls == SelectSeq(AlertCalls(token_address, risk), IsNew)
    IN  IF fail_at \in 1..Len(calls)
        THEN [created |-> SubSeq(calls, 1, fail_at - 1),
              attempted |-> SubSeq(calls, 1, fail_at), raised |-> FALSE]
        ELSE [created |-> calls, attempted |-> calls, raised |-> FALSE]

\* check_for_alerts when the fail_at-th create_alert call raises (0: none
\* raises): the calls before it create their alerts, the except around the
\* whole body swallows the error and the calls after it are never made.
check_for_alerts(token_address, risk, fail_at) ==
    LET calls == AlertCalls(token_address, risk)
    IN  IF fail_at \in 1..Len(calls)
        THEN [created |-> SubSeq(calls, 1, fail_at - 1),
              attempted |-> SubSeq(calls, 1, fail_at), raised |-> FALSE]
        ELSE [created |-> calls, attempted |-> calls, raised |-> FALSE]

-----------------------------------------------------------------------------
(* Provider and collaborator responses the model draws from                *)

Failed == [ok |-> FALSE]

\* holder lists long enough for the top five to hold less than everything:
\* 7, 9 and 13 equal holders (71.4%, 55.6%, 38.5%)
LongHolderLists == {[i \in 1..n |-> 1] : n \in {7, 9, 13}}

Tokens == {"tokenA", "tokenB"}

\* what get_tokens_to_monitor() can return: the tracked addresses, each once
TrackedLists ==
    {l \in SeqsUpTo(Tokens, MaxTracked) : \A i, j \in 1..Len(l) : i # j => l[i] # l[j]}

\* The responses the monitoring loop is run against.  Holders: a failing
\* provider, no holder, one empty-handed holder, a zero-supply list, a
\* concentrated list, and 7, 9 and 13 equal holders (one list per band).
\* Liquidity: a failing provider, no liquidity, and one response per band.
MonitorHolderResponses ==
    {Failed} \cup {[ok |-> TRUE, balances |-> b] :
                     b \in {<<>>, <<0>>, <<0, 0>>, <<3, 1>>} \cup LongHolderLists}

MonitorLiquidityResponses ==
    {Failed} \cup
    {[ok |-> TRUE, total_liquidity |-> r[1], locked_percentage |-> r[2], lock_expiry |-> r[3]] :
        r \in {<<0, 90, None>>, <<10, 10, None>>, <<10, 30, "2030-01-01">>,
               <<10, 60, None>>, <<10, 90, "2030-01-01">>}}

-----------------------------------------------------------------------------
(* MonitoringScheduler: start_monitoring / stop_monitoring.                *)
(* Every start_monitoring() call is a task of the event loop; a task runs  *)
(* from one await to the next without interruption.                        *)

Tasks == 1..MaxTasks

RISK_UPDATE_INTERVAL == 300

ErrorCooldown == 60

NoItem == [kind |-> "none"]

AlertTypes == {"high_risk", "holder_concentration", "liquidity_removal"}

\* nothing logged: no iteration has processed the address yet
NoAlertLog ==
    [token_address \in Tokens |-> [alert_type \in AlertTypes |-> [streak |-> 0, invoked |-> 0]]]

MonInit ==
    /\ monitoring_active = FALSE
    /\ pc = [t \in Tasks |-> "idle"]
    /\ tokens = [t \in Tasks |-> <<>>]
    /\ idx = [t \in Tasks |-> 0]
    /\ processed = [t \in Tasks |-> <<>>]
    /\ delay = [t \in Tasks |-> 0]
    /\ last = NoItem
    /\ iterations = 0
    /\ stopRequested = FALSE
    /\ alert_log = NoAlertLog

\* lifespan: asyncio.create_task(risk_analyzer.start_monitoring()).  The
\* coroutine is scheduled; none of its code has run yet.
CreateTask(t) ==
    /\ pc[t] = "idle"
    /\ \A u \in Tasks : u < t => pc[u] # "idle"
    /\ pc' = [pc EXCEPT ![t] = "created"]
    /\ stopRequested' = FALSE
    /\ UNCHANGED <<monitoring_active, tokens, idx, last, processed, delay, iterations, callVars, alert_log>>

\* where the for-loop goes after the address at position i: the next
\* address, or the interval sleep after the last one
AfterItem(tokens_to_monitor, i) ==
    IF i < Len(tokens_to_monitor)
    THEN [pc |-> "items", delay |-> 0]
    ELSE [pc |-> "sleeping", delay |-> RISK_UPDATE_INTERVAL]

\* an outer except that gives the loop up
OnLoopErrorTerminates == [pc |-> "done", delay |-> 0]

\* the outer except: log, and sleep 60 seconds
OnLoopError == [pc |-> "sleeping", delay |-> ErrorCooldown]

\* a for-loop body without a try of its own: the outer except takes over
OnItemErrorAbandons(tokens_to_monitor, i) == OnLoopError

\* the inner except: log, and go on with the for-loop
OnItemError(tokens_to_monitor, i) == AfterItem(tokens_to_monitor, i)

\* what the loop-top test "while self.monitoring_active" decides
LoopContinues(active) == active

\* the iteration that begins: await get_tokens_to_monitor()
BeginIteration(t) ==
    /\ iterations < MaxIterations
    /\ iterations' = iterations + 1
    /\ pc' = [pc EXCEPT ![t] = "listing"]
    /\ tokens' = [tokens EXCEPT ![t] = <<>>]
    /\ idx' = [idx EXCEPT ![t] = 0]
    /\ processed' = [processed EXCEPT ![t] = <<>>]
    /\ delay' = [delay EXCEPT ![t] = 0]

\* first step of the task: set the flag, pass the loop-top test, call the
\* tracking store
TaskStart(t) ==
    /\ pc[t] = "created"
    /\ monitoring_active' = TRUE
    /\ BeginIteration(t)
    /\ UNCHANGED <<last, stopRequested, callVars, alert_log>>

\* get_tokens_to_monitor() returns
ListReturns(t) ==
    /\ pc[t] = "listing"
    /\ \E tokens_to_monitor \in TrackedLists :
          /\ tokens' = [tokens EXCEPT ![t] = tokens_to_monitor]
          /\ pc' = [pc EXCEPT ![t] = AfterItem(tokens_to_monitor, 0).pc]
          /\ delay' = [delay EXCEPT ![t] = AfterItem(tokens_to_monitor, 0).delay]
    /\ UNCHANGED <<monitoring_active, idx, last, processed, iterations, stopRequested, callVars, alert_log>>

\* get_tokens_to_monitor() raises
ListRaises(t) ==
    /\ pc[t] = "listing"
    /\ pc' = [pc EXCEPT ![t] = OnLoopError.pc]
    /\ delay' = [delay EXCEPT ![t] = OnLoopError.delay]
    /\ processed' = [processed EXCEPT ![t] = <<"listing_failed">>]
    /\ UNCHANGED <<monitoring_active, tokens, idx, last, iterations, stopRequested, callVars, alert_log>>

\* the for-loop body for the next address: quick_risk_check, store_risk_data,
\* check_for_alerts.  store_ok: whether store_risk_data returns; fail_at: the
\* create_alert call that raises, 0 for none.
\* a for-loop body that evaluates the alerts without waiting for the store
ItemRecordAlertsUnordered(token_address, risk, store_ok, fail_at) ==
    [kind |-> "item", token_address |-> token_address, risk |-> risk,
     stored |-> store_ok,
     alert_evaluated |-> TRUE,
     alerts |-> check_for_alerts(token_address, risk, fail_at).created,
     alert_calls |-> check_for_alerts(token_address, risk, fail_at).attempted]

ItemRecord(token_address, risk, store_ok, fail_at) ==
    [kind |-> "item", token_address |-> token_address, risk |-> risk,
     stored |-> store_ok,
     alert_evaluated |-> store_ok,
     alerts |-> IF store_ok
                THEN check_for_alerts(token_address, risk, fail_at).created
                ELSE <<>>,
     alert_calls |-> IF store_ok
                     THEN check_for_alerts(token_address, risk, fail_at).attempted
                     ELSE <<>>]

\* every TokenRisk quick_risk_check can return for an address, over the
\* holder and liquidity provider responses
QuickRiskResults ==
    [token_address \in Tokens |->
        {quick_risk_check(token_address, holders_resp, liquidity_resp) :
            holders_resp \in MonitorHolderResponses,
            liquidity_resp \in MonitorLiquidityResponses}]

ProcessItem(t) ==
    /\ pc[t] = "items"
    /\ LET i == idx[t] + 1
           token_address == tokens[t][i]
       IN  \E risk \in QuickRiskResults[token_address], store_ok \in BOOLEAN :
           \E fail_at \in 0..Len(AlertCalls(token_address, risk)) :
              LET next == IF store_ok THEN AfterItem(tokens[t], i)
                          ELSE OnItemError(tokens[t], i)
              IN  /\ last' = ItemRecord(token_address, risk, store_ok, fail_at)
                  /\ processed' = [processed EXCEPT
                                     ![t] = Append(@, IF store_ok THEN "ok" ELSE "failed")]
                  /\ idx' = [idx EXCEPT ![t] = i]
                  /\ pc' = [pc EXCEPT ![t] = next.pc]
                  /\ delay' = [delay EXCEPT ![t] = next.delay]
    /\ UNCHANGED <<monitoring_active, tokens, iterations, stopRequested, callVars>>

ProcessToken(t) == ProcessItem(t) /\ UNCHANGED alert_log

\* the rule of the alert type, as check_for_alerts tests it
RuleSatisfied(risk, alert_type) ==
    CASE alert_type = "high_risk" -> risk.risk_level \in {"high", "critical"}
      [] alert_type = "holder_concentration" ->
            /\ "holder_concentration" \in DOMAIN risk.factors
            /\ GetScore(risk.factors["holder_concentration"]) > 80
      [] alert_type = "liquidity_removal" ->
            /\ "liquidity_security" \in DOMAIN risk.factors
            /\ GetScore(risk.factors["liquidity_security"]) > 80

\* the for-loop body ran to its end without an error: the risk was stored
\* and every create_alert call returned
ItemSucceeded(item) == item.stored /\ item.alert_calls = item.alerts

\* the log after the for-loop body has run for an address: per alert type,
\* how many successful iterations in a row met the rule, and how many
\* create_alert calls of that type they made; an iteration that failed for
\* the address, or did not meet the rule, starts the count again
Logged(log, item) ==
    [log EXCEPT ![item.token_address] =
        [alert_type \in AlertTypes |->
            LET calls == Cardinality({i \in 1..Len(item.alert_calls) :
                                        item.alert_calls[i].alert_type = alert_type})
            IN  IF ~ItemSucceeded(item) THEN [streak |-> 0, invoked |-> 0]
                ELSE IF RuleSatisfied(item.risk, alert_type)
                THEN [streak |-> @[alert_type].streak + 1,
                      invoked |-> @[alert_type].invoked + calls]
                ELSE [streak |-> 0, invoked |-> calls]]]

\* the for-loop body for the next address, with its create_alert calls logged
ProcessTokenLogged(t) ==
    /\ ProcessItem(t)
    /\ alert_log' = Logged(alert_log, last')

\* asyncio.sleep returns, the loop-top test passes: next iteration
WakeAndContinue(t) ==
    /\ pc[t] = "sleeping"
    /\ LoopContinues(monitoring_active)
    /\ BeginIteration(t)
    /\ UNCHANGED <<monitoring_active, last, stopRequested, callVars, alert_log>>

\* asyncio.sleep returns, the loop-top test fails: the coroutine returns
WakeAndExit(t) ==
    /\ pc[t] = "sleeping"
    /\ ~LoopContinues(monitoring_active)
    /\ pc' = [pc EXCEPT ![t] = "done"]
    /\ delay' = [delay EXCEPT ![t] = 0]
    /\ UNCHANGED <<monitoring_active, tokens, idx, last, processed, iterations, stopRequested, callVars, alert_log>>

\* a stop that cancels the tasks where they stand
StopMonitoringCancels ==
    /\ monitoring_active' = FALSE
    /\ stopRequested' = TRUE
    /\ pc' = [t \in Tasks |-> IF pc[t] = "idle" THEN "idle" ELSE "done"]
    /\ UNCHANGED <<tokens, idx, last, processed, delay, iterations, callVars, alert_log>>

\* stop_monitoring()
StopMonitoring ==
    /\ monitoring_active' = FALSE
    /\ stopRequested' = TRUE
    /\ UNCHANGED <<pc, tokens, idx, last, processed, delay, iterations, callVars, alert_log>>

-----------------------------------------------------------------------------
(* Specifications                                                          *)

AnalysisIdle == analysis = [pc |-> "idle"]

Init ==
    /\ MonInit
    /\ AnalysisIdle
    /\ confCall = NoCall
    /\ factorCall = NoCall
    /\ giniCall = NoCall
    /\ scoreCall = NoCall
    /\ alertCall = NoCall

InitGini ==
    /\ MonInit
    /\ AnalysisIdle
    /\ confCall = NoCall
    /\ factorCall = NoCall
    /\ GiniInit
    /\ scoreCall = NoCall
    /\ alertCall = NoCall

\* lifespan creates the one monitoring task of the application
LifespanStartup == CreateTask(1)

\* lifespan shutdown: await risk_analyzer.stop_monitoring()
LifespanShutdown == StopMonitoring

Next ==
    \/ LifespanStartup
    \/ LifespanShutdown
    \/ \E t \in Tasks : TaskStart(t)
    \/ \E t \in Tasks : ListReturns(t)
    \/ \E t \in Tasks : ListRaises(t)
    \/ \E t \in Tasks : ProcessToken(t)
    \/ \E t \in Tasks : WakeAndContinue(t)
    \/ \E t \in Tasks : WakeAndExit(t)

\* the monitoring loop as the application runs it
Spec == Init /\ [][Next]_vars

\* the monitoring loop with the create_alert calls of the iterations logged
RepeatNext ==
    \/ LifespanStartup
    \/ LifespanShutdown
    \/ \E t \in Tasks : TaskStart(t)
    \/ \E t \in Tasks : ListReturns(t)
    \/ \E t \in Tasks : ListRaises(t)
    \/ \E t \in Tasks : ProcessTokenLogged(t)
    \/ \E t \in Tasks : WakeAndContinue(t)
    \/ \E t \in Tasks : WakeAndExit(t)

SpecRepeat == Init /\ [][RepeatNext]_vars

\* start_monitoring() and stop_monitoring() called in any sequence on one
\* RiskAnalyzer: every create_task(start_monitoring()) is a task of its own
RestartNext ==
    \/ \E t \in Tasks : CreateTask(t)
    \/ StopMonitoring
    \/ \E t \in Tasks : TaskStart(t)
    \/ \E t \in Tasks : ListReturns(t)
    \/ \E t \in Tasks : ListRaises(t)
    \/ \E t \in Tasks : ProcessToken(t)
    \/ \E t \in Tasks : WakeAndContinue(t)
    \/ \E t \in Tasks : WakeAndExit(t)

SpecRestart == Init /\ [][RestartNext]_vars

InitGiniFloat ==
    /\ MonInit
    /\ AnalysisIdle
    /\ confCall = NoCall
    /\ factorCall = NoCall
    /\ GiniFloatInit
    /\ scoreCall = NoCall
    /\ alertCall = NoCall

\* calls of _calculate_gini_coefficient, in floating point
SpecGiniFloat == InitGiniFloat /\ [][GiniFloatNext]_vars

\* calls of _calculate_gini_coefficient
SpecGini == InitGini /\ [][GiniNext]_vars

-----------------------------------------------------------------------------
(* Calls of check_for_alerts with any risk record                          *)

AlertScores == {0, 50, 80, 85, 100}

\* a factor dict: with a score, or without the key "score"
AlertFactorDicts == {[score |-> sc] : sc \in AlertScores} \cup {[name |-> "unscored"]}

AlertFactorMaps ==
    {<<>>}
    \cup {[holder_concentration |-> h] : h \in AlertFactorDicts}
    \cup {[liquidity_security |-> l] : l \in AlertFactorDicts}
    \cup {[holder_concentration |-> h, liquidity_security |-> l] :
            h \in AlertFactorDicts, l \in AlertFactorDicts}

AlertRisks ==
    {[risk_level |-> lv, factors |-> f] :
        lv \in {"low", "medium", "high", "critical"}, f \in AlertFactorMaps}

AlertInit ==
    alertCall \in {[called |-> FALSE, risk |-> r, fail_at |-> k] :
                      r \in AlertRisks, k \in 0..3}

CheckForAlertsCall ==
    /\ ~alertCall.called
    /\ "risk" \in DOMAIN alertCall
    /\ alertCall' = [called |-> TRUE, risk |-> alertCall.risk, fail_at |-> alertCall.fail_at,
                     result |-> check_for_alerts("tokenA", alertCall.risk, alertCall.fail_at)]
    /\ UNCHANGED <<monVars, analysis, giniCall, scoreCall, confCall, factorCall>>

AlertNext == CheckForAlertsCall

InitAlert ==
    /\ MonInit
    /\ AnalysisIdle
    /\ confCall = NoCall
    /\ factorCall = NoCall
    /\ giniCall = NoCall
    /\ scoreCall = NoCall
    /\ AlertInit

\* calls of check_for_alerts
SpecAlert == InitAlert /\ [][AlertNext]_vars

-----------------------------------------------------------------------------
(* Calls of _calculate_risk_score with any set of factors                  *)

FactorScores == {0, 40, 60, 80, 100}

\* factor sets: some of the seven names, each with a score and its weight
FactorSets ==
    UNION {[names -> FactorScores] : names \in SUBSET FactorNames}

AsRiskFactors(scores) ==
    [k \in DOMAIN scores |-> RiskFactor(k, "analysis", None, scores[k], <<"evidence">>, None)]

ScoreInit == scoreCall \in {[called |-> FALSE, scores |-> f] : f \in FactorSets}

RiskScoreCall ==
    /\ ~scoreCall.called
    /\ "scores" \in DOMAIN scoreCall
    /\ scoreCall' = [called |-> TRUE, scores |-> scoreCall.scores,
                     result |-> calculate_risk_score(AsRiskFactors(scoreCall.scores))]
    /\ UNCHANGED <<monVars, analysis, giniCall, alertCall, confCall, factorCall>>

ScoreNext == RiskScoreCall

InitScore ==
    /\ MonInit
    /\ AnalysisIdle
    /\ confCall = NoCall
    /\ factorCall = NoCall
    /\ giniCall = NoCall
    /\ ScoreInit
    /\ alertCall = NoCall

\* calls of _calculate_risk_score
SpecScore == InitScore /\ [][ScoreNext]_vars

-----------------------------------------------------------------------------
(* Calls of _calculate_confidence with any set of factors                  *)

\* the evidence list of a factor: empty, or with one entry
EvidenceLists == {<<>>, <<"evidence">>}

\* factor sets: some (or none) of the seven names, each with an evidence list
EvidenceSets ==
    UNION {[names -> EvidenceLists] : names \in SUBSET FactorNames}

WithEvidence(evidence) ==
    [k \in DOMAIN evidence |-> RiskFactor(k, "analysis", None, 50, evidence[k], None)]

ConfInit == confCall \in {[called |-> FALSE, evidence |-> e] : e \in EvidenceSets}

ConfidenceCall ==
    /\ ~confCall.called
    /\ "evidence" \in DOMAIN confCall
    /\ confCall' = [called |-> TRUE, evidence |-> confCall.evidence,
                    result |-> calculate_confidence(WithEvidence(confCall.evidence))]
    /\ UNCHANGED <<monVars, analysis, giniCall, scoreCall, alertCall, factorCall>>

ConfNext == ConfidenceCall

InitConf ==
    /\ MonInit
    /\ AnalysisIdle
    /\ ConfInit
    /\ factorCall = NoCall
    /\ giniCall = NoCall
    /\ scoreCall = NoCall
    /\ alertCall = NoCall

\* calls of _calculate_confidence
SpecConf == InitConf /\ [][ConfNext]_vars

-----------------------------------------------------------------------------
(* Calls of the seven factor computations, each with the data its          *)
(* collection step or its provider hands it                                *)

Ones(n) == [i \in 1..n |-> 1]

\* holder balances as the provider lists them: none, one holder, zero
\* supply, one dominant holder (sorted or not), and lists whose five
\* largest hold exactly 80, 60, 40 percent or sit on either side
FactorHolderBalances ==
    {<<>>, <<0>>, <<5>>, <<0, 0>>, <<0, 0, 0>>, <<3, 1>>,
     <<36, 1, 1, 1, 1>>, <<1, 1, 36, 1, 1>>,
     <<3, 2, 2, 1, 1, 1, 1>>, <<2, 2, 2, 1, 1, 1, 1>>, <<1, 1, 1, 1, 2, 2, 2>>,
     Ones(7), <<2, 1, 1, 1, 1, 1, 1, 1, 1>>,
     Ones(10), <<2, 2, 2, 2, 2, 2, 2, 2, 2, 2, 2, 2, 1>>, Ones(13)}

FactorHolderInputs == {Failed} \cup {[ok |-> TRUE, balances |-> b] : b \in FactorHolderBalances}

FactorLiquidityInputs ==
    {Failed} \cup
    {[ok |-> TRUE, total_liquidity |-> t, locked_percentage |-> l, lock_expiry |-> e] :
        t \in {0, 10}, l \in {0, 19, 20, 21, 49, 50, 79, 80, 81, 100},
        e \in {None, "2030-01-01"}}

FactorVolumeInputs ==
    {Failed} \cup
    {[ok |-> TRUE, total_volume_24h |-> 100, wash_trading_score |-> w] :
        w \in {0, 39, 40, 41, 59, 60, 61, 79, 80, 81, 100}}

FactorSocialInputs ==
    {Failed} \cup
    {[ok |-> TRUE, twitter_mentions |-> tw, telegram_members |-> tg,
      website_exists |-> w, domain_age_days |-> d] :
        tw \in {0, 10, 11, 100, 101}, tg \in {0, 100, 101, 1000, 1001},
        w \in BOOLEAN, d \in {NoDays, <<0>>, <<30>>, <<31>>}}

FactorSecurityInputs ==
    {Failed} \cup {[ok |-> TRUE, issues |-> [i \in 1..n |-> "issue"]] : n \in 0..7}

FactorPriceInputs ==
    {Failed} \cup {[ok |-> TRUE, prices |-> p] :
                     p \in {<<>>, <<10>>, <<10, 10>>, <<9, 11>>, <<4, 6>>, <<1, 9>>, <<0, 0>>}}

FactorPatternInputs ==
    {Failed} \cup
    {[ok |-> TRUE, rapid_trading |-> r, coordinated_buying |-> c, wash_trading |-> w] :
        r \in BOOLEAN, c \in BOOLEAN, w \in BOOLEAN}

FactorInputs ==
    [holder_concentration |-> FactorHolderInputs,
     liquidity_security |-> FactorLiquidityInputs,
     volume_authenticity |-> FactorVolumeInputs,
     social_credibility |-> FactorSocialInputs,
     contract_security |-> FactorSecurityInputs,
     price_stability |-> FactorPriceInputs,
     trading_patterns |-> FactorPatternInputs]

Returned(factor) == [raised |-> FALSE, factor |-> factor]

\* the factor computation of the given name on the given provider answer:
\* the RiskFactor it returns, or that it raised
calculate_factor(name, input) ==
    CASE name = "holder_concentration" ->
            LET holders == analyze_holders(input)
            IN  IF holder_concentration_raises(holders)
                THEN [raised |-> TRUE, error |-> "ZeroDivisionError"]
                ELSE Returned(calculate_holder_concentration_risk(holders))
      [] name = "liquidity_security" ->
            Returned(calculate_liquidity_security_risk(analyze_liquidity(input)))
      [] name = "volume_authenticity" ->
            Returned(calculate_volume_authenticity_risk(analyze_volume(input)))
      [] name = "social_credibility" ->
            Returned(calculate_social_credibility_risk(analyze_social(input)))
      [] name = "contract_security" -> Returned(calculate_contract_security_risk(input))
      [] name = "price_stability" -> Returned(calculate_price_stability_risk(input))
      [] name = "trading_patterns" -> Returned(calculate_trading_patterns_risk(input))

FactorInit ==
    \E name \in FactorNames : \E input \in FactorInputs[name] :
        factorCall = [called |-> FALSE, name |-> name, input |-> input]

FactorCall ==
    /\ ~factorCall.called
    /\ "name" \in DOMAIN factorCall
    /\ factorCall' = [called |-> TRUE, name |-> factorCall.name, input |-> factorCall.input,
                      result |-> calculate_factor(factorCall.name, factorCall.input)]
    /\ UNCHANGED <<monVars, analysis, giniCall, scoreCall, alertCall, confCall>>

FactorNext == FactorCall

InitFactor ==
    /\ MonInit
    /\ AnalysisIdle
    /\ FactorInit
    /\ confCall = NoCall
    /\ giniCall = NoCall
    /\ scoreCall = NoCall
    /\ alertCall = NoCall

\* calls of the factor computations
SpecFactor == InitFactor /\ [][FactorNext]_vars

-----------------------------------------------------------------------------
(* AnalysisOrchestrator: analyze_token, one step per awaited provider call *)

\* responses analyze_token is run against: for each provider a failure, an
\* empty or zero answer, and data on either side of the bands
AnalysisHolderResponses ==
    {Failed} \cup {[ok |-> TRUE, balances |-> b] :
                     b \in {<<>>, <<0, 0>>, <<3, 1>>, [i \in 1..13 |-> 1]}}

AnalysisLiquidityResponses ==
    {Failed} \cup
    {[ok |-> TRUE, total_liquidity |-> r[1], locked_percentage |-> r[2], lock_expiry |-> r[3]] :
        r \in {<<0, 0, None>>, <<10, 10, None>>, <<10, 90, "2030-01-01">>}}

VolumeResponses ==
    {Failed} \cup
    {[ok |-> TRUE, total_volume_24h |-> 100, wash_trading_score |-> w] : w \in {30, 90}}

SocialResponses ==
    {Failed,
     [ok |-> TRUE, twitter_mentions |-> 0, telegram_members |-> 0,
      website_exists |-> FALSE, domain_age_days |-> NoDays],
     [ok |-> TRUE, twitter_mentions |-> 11, telegram_members |-> 101,
      website_exists |-> TRUE, domain_age_days |-> <<30>>],
     [ok |-> TRUE, twitter_mentions |-> 101, telegram_members |-> 1001,
      website_exists |-> TRUE, domain_age_days |-> <<31>>]}

SecurityResponses ==
    {Failed} \cup {[ok |-> TRUE, issues |-> [i \in 1..n |-> "issue"]] : n \in {0, 2, 6}}

PriceResponses ==
    {Failed} \cup {[ok |-> TRUE, prices |-> p] : p \in {<<>>, <<10, 10>>, <<1, 9>>}}

PatternResponses ==
    {Failed} \cup
    {[ok |-> TRUE, rapid_trading |-> r[1], coordinated_buying |-> r[2], wash_trading |-> r[3]] :
        r \in {<<FALSE, FALSE, FALSE>>, <<TRUE, FALSE, FALSE>>, <<TRUE, TRUE, TRUE>>}}

ProviderNames == {"token_info", "holders", "liquidity", "volume", "social",
                  "security", "price_history", "trading_patterns"}

\* the record of a call that is under way: what has been collected, and,
\* as history, which provider calls raised
Collected(a, step, field, value, ok) ==
    [a EXCEPT !.pc = step, !.data = [k \in DOMAIN a.data \cup {field} |->
                                        IF k = field THEN value ELSE a.data[k]],
              !.provider_errors = IF ok THEN @ ELSE @ \cup {field}]

\* an analyze_token that swallows the error and returns an empty result
RaisesSwallowed(a, error) == [pc |-> "done", result |-> None,
                              provider_errors |-> a.provider_errors]

\* analyze_token raises to its caller
Raises(a, error) == [pc |-> "raised", error |-> error,
                     provider_errors |-> a.provider_errors]

\* await get_token_info(): its failure is not caught
AnalyzeStart ==
    /\ analysis.pc = "idle"
    /\ \E ok \in BOOLEAN :
          analysis' = IF ok
                      THEN [pc |-> "holders", data |-> <<>>, risk_factors |-> <<>>,
                            provider_errors |-> {}]
                      ELSE Raises([provider_errors |-> {"token_info"}], "token_info")
    /\ UNCHANGED <<monVars, giniCall, scoreCall, alertCall, confCall, factorCall>>

AnalyzeHolders ==
    /\ analysis.pc = "holders"
    /\ \E resp \in AnalysisHolderResponses :
          analysis' = Collected(analysis, "liquidity", "holders", analyze_holders(resp), resp.ok)
    /\ UNCHANGED <<monVars, giniCall, scoreCall, alertCall, confCall, factorCall>>

AnalyzeLiquidity ==
    /\ analysis.pc = "liquidity"
    /\ \E resp \in AnalysisLiquidityResponses :
          analysis' = Collected(analysis, "volume", "liquidity", analyze_liquidity(resp), resp.ok)
    /\ UNCHANGED <<monVars, giniCall, scoreCall, alertCall, confCall, factorCall>>

AnalyzeVolume ==
    /\ analysis.pc = "volume"
    /\ \E resp \in VolumeResponses :
          analysis' = Collected(analysis, "social", "volume", analyze_volume(resp), resp.ok)
    /\ UNCHANGED <<monVars, giniCall, scoreCall, alertCall, confCall, factorCall>>

\* the four factors _calculate_risk_factors computes before its first await
CollectedFactors(data) ==
    [holder_concentration |-> calculate_holder_concentration_risk(data["holders"]),
     liquidity_security |-> calculate_liquidity_security_risk(data["liquidity"]),
     volume_authenticity |-> calculate_volume_authenticity_risk(data["volume"]),
     social_credibility |-> calculate_social_credibility_risk(data["social"])]

\* risk_factors[name] = factor
WithFactor(risk_factors, name, factor) ==
    [k \in DOMAIN risk_factors \cup {name} |-> IF k = name THEN factor ELSE risk_factors[k]]

\* the social answer arrives, and _calculate_risk_factors runs up to the
\* contract security call
AnalyzeSocial ==
    /\ analysis.pc = "social"
    /\ \E resp \in SocialResponses :
          LET a == Collected(analysis, "security", "social", analyze_social(resp), resp.ok)
          IN  analysis' = IF holder_concentration_raises(a.data["holders"])
                          THEN Raises(a, "ZeroDivisionError")
                          ELSE [a EXCEPT !.risk_factors = CollectedFactors(a.data)]
    /\ UNCHANGED <<monVars, giniCall, scoreCall, alertCall, confCall, factorCall>>

\* await check_contract_security(), inside _calculate_contract_security_risk
ContractSecurity ==
    /\ analysis.pc = "security"
    /\ \E resp \in SecurityResponses :
          analysis' = [analysis EXCEPT
                          !.pc = "price_history",
                          !.risk_factors = WithFactor(@, "contract_security",
                                                      calculate_contract_security_risk(resp)),
                          !.provider_errors = IF resp.ok THEN @ ELSE @ \cup {"security"}]
    /\ UNCHANGED <<monVars, giniCall, scoreCall, alertCall, confCall, factorCall>>

\* await get_price_history(), inside _calculate_price_stability_risk
PriceStability ==
    /\ analysis.pc = "price_history"
    /\ \E resp \in PriceResponses :
          analysis' = [analysis EXCEPT
                          !.pc = "trading_patterns",
                          !.risk_factors = WithFactor(@, "price_stability",
                                                      calculate_price_stability_risk(resp)),
                          !.provider_errors = IF resp.ok THEN @ ELSE @ \cup {"price_history"}]
    /\ UNCHANGED <<monVars, giniCall, scoreCall, alertCall, confCall, factorCall>>

\* the TokenAnalysis assembled from the collected data and the factors
TokenAnalysis(data, risk_factors) ==
    LET scored == calculate_risk_score(risk_factors)
    IN  [risk_level |-> scored.risk_level, risk_score |-> scored.risk_score,
         confidence |-> calculate_confidence(risk_factors),
         holders |-> data["holders"], liquidity |-> data["liquidity"],
         volume |-> data["volume"], social |-> data["social"],
         risk_factors |-> risk_factors]

\* the last factor, then the score, the confidence and the result
TradingPatterns ==
    /\ analysis.pc = "trading_patterns"
    /\ \E resp \in PatternResponses :
          LET risk_factors == WithFactor(analysis.risk_factors, "trading_patterns",
                                         calculate_trading_patterns_risk(resp))
          IN  analysis' = [pc |-> "done",
                           result |-> TokenAnalysis(analysis.data, risk_factors),
                           provider_errors |-> IF resp.ok THEN analysis.provider_errors
                                               ELSE analysis.provider_errors
                                                    \cup {"trading_patterns"}]
    /\ UNCHANGED <<monVars, giniCall, scoreCall, alertCall, confCall, factorCall>>

\* the call is over: the caller has the TokenAnalysis or the exception, and
\* the analyzer keeps nothing of the call
AnalyzeReturns ==
    /\ analysis.pc \in {"done", "raised"}
    /\ analysis' = [pc |-> "idle"]
    /\ UNCHANGED <<monVars, giniCall, scoreCall, alertCall, confCall, factorCall>>

AnalyzeNext ==
    \/ AnalyzeStart
    \/ AnalyzeHolders
    \/ AnalyzeLiquidity
    \/ AnalyzeVolume
    \/ AnalyzeSocial
    \/ ContractSecurity
    \/ PriceStability
    \/ TradingPatterns
    \/ AnalyzeReturns

\* calls of analyze_token
SpecAnalyze == Init /\ [][AnalyzeNext]_vars

\* The monitoring loop together with API calls of analyze_token, of which
\* the metadata fetch and the return are taken; the later steps of a call
\* are those of SpecAnalyze and read and write the call's own record only.
ApiNext ==
    \/ LifespanStartup
    \/ LifespanShutdown
    \/ \E t \in Tasks : TaskStart(t)
    \/ \E t \in Tasks : ListReturns(t)
    \/ \E t \in Tasks : ListRaises(t)
    \/ \E t \in Tasks : ProcessToken(t)
    \/ \E t \in Tasks : WakeAndContinue(t)
    \/ \E t \in Tasks : WakeAndExit(t)
    \/ AnalyzeStart
    \/ AnalyzeReturns

SpecApi == Init /\ [][ApiNext]_vars

-----------------------------------------------------------------------------
(* Properties                                                              *)

\* balances with one unit moved from holder i to a holder j that has at
\* least as much: a more concentrated distribution
Transfer(values, i, j) ==
    [k \in 1..Len(values) |->
        IF k = i THEN values[k] - 1 ELSE IF k = j THEN values[k] + 1 ELSE values[k]]

\* a/b <= c/d for fractions with positive denominators
FracLeq(a, c) == a.num * c.den <= c.num * a.den

\* C1 (SpecGini): for n >= 2 non-negative balances with positive sum the
\* returned coefficient lies in [0, (n-1)/n], does not decrease when a unit
\* moves from a holder to one holding at least as much, and for
\* [1,1,1,1,96] is positive and near 0.8 (at least 0.7).
C1_GiniInRangeAndGrowing ==
    (giniCall.called /\ Len(giniCall.values) >= 2 /\ SumSeq(giniCall.values) > 0) =>
        LET values == giniCall.values
            n == Len(values)
            g == giniCall.result
        IN  /\ ~g.raised
            /\ g.num >= 0
            /\ g.num * n <= (n - 1) * g.den
            /\ \A i, j \in 1..n :
                  (i # j /\ values[i] >= 1 /\ values[i] <= values[j]) =>
                      FracLeq(g, calculate_gini_coefficient(Transfer(values, i, j)))
            /\ (values = <<1, 1, 1, 1, 96>> => g.num > 0 /\ 10 * g.num >= 7 * g.den)

\* C2 (Spec): every TokenRisk quick_risk_check returns to the monitoring
\* loop has tier low or medium, whatever the providers answered.
C2_QuickCheckNeverHighOrCritical ==
    last.kind = "item" => last.risk.risk_level \in {"low", "medium"}

\* C2 witness: a quick check in which both factors scored 1.0
C2_BothFactorsMaximal ==
    /\ last.kind = "item"
    /\ "holder_concentration" \in DOMAIN last.risk.factors
    /\ last.risk.factors["holder_concentration"].score = 100
    /\ last.risk.factors["liquidity_security"].score = 100
    /\ last.risk.risk_level = "medium"

\* C3 (Spec): every TokenRisk handed to store_risk_data has risk_score
\* 0.25 * holder score + 0.20 * liquidity score, at most 0.45, and
\* confidence 0.7.
C3_StoredRiskIsTwoFactorSum ==
    last.kind = "item" =>
        /\ DOMAIN last.risk.factors = {"holder_concentration", "liquidity_security"}
        /\ last.risk.risk_score = 25 * last.risk.factors["holder_concentration"].score
                                  + 20 * last.risk.factors["liquidity_security"].score
        /\ last.risk.risk_score <= 4500
        /\ last.risk.confidence = 70

\* C4 (Spec): once stop_monitoring() has run and no task was created since,
\* no task begins a further iteration.
C4_NoIterationAfterStop ==
    [][stopRequested => iterations' = iterations]_vars

\* the iteration of task t has an address whose processing raised
ItemFailed(t) == \E i \in 1..Len(processed[t]) : processed[t][i] = "failed"

\* C5 (Spec): when the processing of an address raises, the for-loop goes
\* on with the remaining addresses, the iteration ends in the interval
\* sleep with every address processed, the addresses that did not raise are
\* stored and alert-evaluated, and the step leaves monitoring_active alone.
C5_PerItemIsolation ==
    /\ [](\A t \in Tasks :
            ItemFailed(t) =>
                /\ pc[t] \in {"items", "sleeping", "done"}
                /\ pc[t] = "items" <=> Len(processed[t]) < Len(tokens[t])
                /\ pc[t] = "sleeping" => delay[t] = RISK_UPDATE_INTERVAL
                /\ (processed[t][Len(processed[t])] = "ok" /\ last.kind = "item"
                    /\ last.token_address = tokens[t][Len(processed[t])])
                   => last.stored /\ last.alert_evaluated)
    /\ [][(\E t \in Tasks : processed'[t] # processed[t] /\ ItemFailed(t)')
          => monitoring_active' = monitoring_active]_vars

\* C5 witness: the first of two addresses raised, the second was stored and
\* alert-evaluated, and the task is in its interval sleep
C5_FailureThenNextAddressProcessed ==
    \E t \in Tasks :
        /\ processed[t] = <<"failed", "ok">>
        /\ pc[t] = "sleeping" /\ delay[t] = RISK_UPDATE_INTERVAL
        /\ last.kind = "item" /\ last.stored /\ last.alert_evaluated

\* C6 (Spec): when the listing call raises, the iteration processes no
\* address and the task sleeps the 60 s cooldown, after which it tests the
\* flag again; monitoring_active falls only in stop_monitoring(), and a
\* task returns only after reading the flag as false.
C6_LoopFailureCooldown ==
    /\ [](\A t \in Tasks :
            (processed[t] # <<>> /\ processed[t][1] = "listing_failed") =>
                /\ Len(processed[t]) = 1 /\ idx[t] = 0 /\ tokens[t] = <<>>
                /\ pc[t] \in {"sleeping", "done"}
                /\ pc[t] = "sleeping" => delay[t] = ErrorCooldown
                /\ ErrorCooldown # RISK_UPDATE_INTERVAL)
    /\ [][/\ \A t \in Tasks :
               (pc[t] = "sleeping" /\ pc'[t] # "sleeping") =>
                   \/ monitoring_active /\ pc'[t] = "listing"
                   \/ ~monitoring_active /\ pc'[t] = "done"
          /\ \A t \in Tasks :
               (pc[t] = "listing" /\ processed'[t] = <<"listing_failed">>) =>
                   pc'[t] = "sleeping" /\ delay'[t] = ErrorCooldown
          /\ \A t \in Tasks :
               (pc[t] # "done" /\ pc'[t] = "done") =>
                   pc[t] = "sleeping" /\ ~monitoring_active
          /\ (monitoring_active /\ ~monitoring_active') => (stopRequested' /\ pc' = pc)]_vars

\* C6 witness: a task in the cooldown after a failed listing
C6_InCooldown ==
    \E t \in Tasks :
        /\ processed[t] = <<"listing_failed">>
        /\ pc[t] = "sleeping" /\ delay[t] = ErrorCooldown
        /\ monitoring_active

\* the alerts of one type among those created
OfType(alerts, alert_type) ==
    {i \in 1..Len(alerts) : alerts[i].alert_type = alert_type}

\* C7 (SpecAlert): with create_alert succeeding, the alerts created are one
\* high_risk alert iff the tier is high or critical (severity 5 if critical,
\* else 4), one holder_concentration alert of severity 4 iff that factor's
\* score > 0.8, one liquidity_removal alert of severity 4 iff that factor's
\* score > 0.8, and nothing else.
C7_AlertsExactlyPerRule ==
    (alertCall.called /\ alertCall.fail_at = 0) =>
        LET risk == alertCall.risk
            created == alertCall.result.created
            holderHigh == /\ "holder_concentration" \in DOMAIN risk.factors
                          /\ "score" \in DOMAIN risk.factors["holder_concentration"]
                          /\ risk.factors["holder_concentration"].score > 80
            liquidityHigh == /\ "liquidity_security" \in DOMAIN risk.factors
                             /\ "score" \in DOMAIN risk.factors["liquidity_security"]
                             /\ risk.factors["liquidity_security"].score > 80
            tierHigh == risk.risk_level \in {"high", "critical"}
            Count(b) == IF b THEN 1 ELSE 0
        IN  /\ Cardinality(OfType(created, "high_risk")) = Count(tierHigh)
            /\ Cardinality(OfType(created, "holder_concentration")) = Count(holderHigh)
            /\ Cardinality(OfType(created, "liquidity_removal")) = Count(liquidityHigh)
            /\ Len(created) = Count(tierHigh) + Count(holderHigh) + Count(liquidityHigh)
            /\ \A i \in 1..Len(created) :
                  created[i].severity =
                      IF created[i].alert_type = "high_risk" /\ risk.risk_level = "critical"
                      THEN 5 ELSE 4

\* C7 witness: tier critical, holder_concentration score 0.85, liquidity
\* score not above 0.8: two alerts, severities 5 and 4
C7_CriticalWithHolderScore85 ==
    /\ alertCall.called /\ alertCall.fail_at = 0
    /\ alertCall.risk.risk_level = "critical"
    /\ alertCall.risk.factors = [holder_concentration |-> [score |-> 85],
                                 liquidity_security |-> [score |-> 80]]
    /\ Len(alertCall.result.created) = 2
    /\ alertCall.result.created[1].severity = 5
    /\ alertCall.result.created[2].alert_type = "holder_concentration"

\* the factor each provider call feeds
FactorOf(provider) ==
    CASE provider = "holders"          -> "holder_concentration"
      [] provider = "liquidity"        -> "liquidity_security"
      [] provider = "volume"           -> "volume_authenticity"
      [] provider = "social"           -> "social_credibility"
      [] provider = "security"         -> "contract_security"
      [] provider = "price_history"    -> "price_stability"
      [] provider = "trading_patterns" -> "trading_patterns"

UnableEvidence == {<<"Unable to analyze contract security">>,
                   <<"Unable to analyze price stability">>,
                   <<"Unable to analyze trading patterns">>}

FactorProviders == ProviderNames \ {"token_info"}

\* no failure of one of the seven factor providers reaches the caller
NoProviderErrorPropagates ==
    analysis.pc = "raised" => analysis.error \in {"token_info", "ZeroDivisionError"}

\* C8 as stated (SpecAnalyze): a raising provider call of any of the seven
\* factors is caught, and that factor has score 0.5 and 'unable to analyze'
\* evidence.
C8_FailedProviderGivesNeutralFactor ==
    /\ NoProviderErrorPropagates
    /\ analysis.pc = "done" =>
          \A provider \in analysis.provider_errors :
              LET factor == analysis.result.risk_factors[FactorOf(provider)]
              IN  factor.score = 50 /\ factor.evidence \in UnableEvidence

\* C8 amended (SpecAnalyze): a raising provider call of any of the seven
\* factors is caught and not propagated.  For security issues, price history
\* and trading patterns the factor has score 0.5 and 'Unable to analyze'
\* evidence; for holders, liquidity, volume and social the collected data
\* defaults to the empty or zero structure and the factor is scored from
\* it: holders 1.0 with 'No holder data found', liquidity 1.0 with 'No
\* liquidity found', volume 0.2, social 1.0.
C8_FailedProviderGivesDefaultedFactor ==
    /\ NoProviderErrorPropagates
    /\ analysis.pc = "done" =>
          \A provider \in analysis.provider_errors :
              LET result == analysis.result
                  factor == result.risk_factors[FactorOf(provider)]
              IN  /\ provider \in {"security", "price_history", "trading_patterns"} =>
                        factor.score = 50 /\ factor.evidence \in UnableEvidence
                  /\ provider = "holders" =>
                        /\ result.holders = <<>>
                        /\ factor.score = 100 /\ factor.evidence = <<"No holder data found">>
                  /\ provider = "liquidity" =>
                        /\ result.liquidity.total_liquidity = 0
                        /\ factor.score = 100 /\ factor.evidence = <<"No liquidity found">>
                  /\ provider = "volume" =>
                        /\ result.volume.wash_trading_score = 0
                        /\ factor.score = 20 /\ factor.evidence \notin UnableEvidence
                  /\ provider = "social" =>
                        /\ result.social.twitter_mentions = 0
                        /\ factor.score = 100 /\ factor.evidence \notin UnableEvidence

\* C8 witness: an analysis returned although all seven factor providers
\* raised
C8_AllSevenProvidersRaised ==
    /\ analysis.pc = "done"
    /\ analysis.provider_errors = FactorProviders
    /\ DOMAIN analysis.result.risk_factors = FactorNames

\* C9 (SpecAnalyze): once the metadata fetch has succeeded analyze_token
\* does not raise, and the TokenAnalysis it returns has exactly the seven
\* factor names as keys, each mapped to the factor of that name.
C9_SevenFactorsWheneverMetadataFetched ==
    /\ analysis.pc = "raised" => analysis.error = "token_info"
    /\ analysis.pc = "done" =>
          /\ DOMAIN analysis.result.risk_factors = FactorNames
          /\ \A k \in FactorNames : analysis.result.risk_factors[k].name = k

\* C10 (SpecScore): for a non-empty factor set the returned score is
\* sum(score*weight)/sum(weight), lies in [0,1], and the tier is critical
\* iff score >= 0.8, high iff 0.6 <= score < 0.8, medium iff
\* 0.4 <= score < 0.6, low iff score < 0.4.
C10_ScoreNormalisedAndBanded ==
    (scoreCall.called /\ DOMAIN scoreCall.scores # {}) =>
        LET scores == scoreCall.scores
            names == DOMAIN scores
            sw == SumOver([k \in names |-> scores[k] * risk_weights[k]], names)
            w == SumOver([k \in names |-> risk_weights[k]], names)
            score == scoreCall.result.risk_score
            tier == scoreCall.result.risk_level
        IN  /\ score.den > 0
            /\ score.num * w = sw * score.den
            /\ 0 <= score.num /\ score.num <= 100 * score.den
            /\ tier = "critical" <=> score.num >= 80 * score.den
            /\ tier = "high" <=> (60 * score.den <= score.num /\ score.num < 80 * score.den)
            /\ tier = "medium" <=> (40 * score.den <= score.num /\ score.num < 60 * score.den)
            /\ tier = "low" <=> score.num < 40 * score.den

\* C10 witness: factors of different scores whose weighted mean is exactly
\* 0.8, rated critical
C10_MixedFactorsOnTheBoundary ==
    /\ scoreCall.called
    /\ \E k \in DOMAIN scoreCall.scores : scoreCall.scores[k] = 100
    /\ \E k \in DOMAIN scoreCall.scores : scoreCall.scores[k] = 60
    /\ scoreCall.result.risk_score.num = 80 * scoreCall.result.risk_score.den
    /\ scoreCall.result.risk_level = "critical"

\* the number of factors of a confidence call whose evidence is non-empty
EvidencedCount(evidence) == Cardinality({k \in DOMAIN evidence : evidence[k] # <<>>})

\* C11 (SpecConf), as stated: the confidence is (factors with non-empty
\* evidence) / (all factors) for a non-empty factor set, and 0.5 for no
\* factors.
C11_ConfidenceIsEvidencedShare ==
    confCall.called =>
        LET n == Cardinality(DOMAIN confCall.evidence)
            k == EvidencedCount(confCall.evidence)
            c == confCall.result
        IN  /\ c.den > 0
            /\ n > 0 => c.num * n = 100 * k * c.den
            /\ n = 0 => c.num * 2 = 100 * c.den

\* C11, amended: the confidence is the mean of 1.0 per factor with
\* non-empty evidence and 0.5 per factor without, (k + 0.5*(n-k)) / n, and
\* 0.5 for no factors.
C11_ConfidenceIsMeanOfOneAndHalf ==
    confCall.called =>
        LET n == Cardinality(DOMAIN confCall.evidence)
            k == EvidencedCount(confCall.evidence)
            c == confCall.result
        IN  /\ c.den > 0
            /\ n > 0 => c.num * n = (100 * k + 50 * (n - k)) * c.den
            /\ n = 0 => c.num * 2 = 100 * c.den

\* C11 witness: a call with factors of both kinds, three with evidence and
\* one without, answered 0.875
C11_MixedEvidence ==
    /\ confCall.called
    /\ Cardinality(DOMAIN confCall.evidence) = 4
    /\ EvidencedCount(confCall.evidence) = 3
    /\ confCall.result.num * 1000 = 875 * 100 * confCall.result.den

\* C12 (SpecApi): a raising metadata fetch makes analyze_token raise with
\* no TokenAnalysis; the failed call and its return leave the monitoring
\* state as it was, and the analyzer is then in the state a first call
\* finds.
C12_MetadataFailureConfined ==
    /\ [](("provider_errors" \in DOMAIN analysis /\ "token_info" \in analysis.provider_errors) =>
            /\ analysis.pc = "raised"
            /\ analysis.error = "token_info"
            /\ "result" \notin DOMAIN analysis)
    /\ [][/\ (analysis.pc = "idle" /\ analysis'.pc = "raised") => monVars' = monVars
          /\ (analysis.pc = "raised" /\ analysis' # analysis) =>
                (analysis' = [pc |-> "idle"] /\ monVars' = monVars)]_vars

\* C12 witness: a metadata fetch has failed while the monitoring loop is in
\* the middle of an iteration
C12_MetadataFailedDuringIteration ==
    /\ analysis.pc = "raised" /\ analysis.error = "token_info"
    /\ monitoring_active
    /\ \E t \in Tasks : pc[t] = "items" /\ idx[t] = 1

LargestFiveSum(balances) ==
    LET n == Len(balances)
        k == IF n < 5 THEN n ELSE 5
        sums == {SumOver(balances, S) : S \in {T \in SUBSET (1..n) : Cardinality(T) = k}}
    IN  CHOOSE x \in sums : \A y \in sums : y <= x

\* a factor call that returned, on data the provider delivered
FactorScored(name) ==
    /\ factorCall.called /\ factorCall.name = name
    /\ factorCall.input.ok /\ ~factorCall.result.raised

\* a holder call with a positive supply, a liquidity call with liquidity
HolderBanded == FactorScored("holder_concentration") /\ SumSeq(factorCall.input.balances) > 0

LiquidityBanded == FactorScored("liquidity_security") /\ factorCall.input.total_liquidity # 0

\* the score of a metric x (as the fraction num/den) under descending
\* thresholds 80, 60, 40 that a value equal to the threshold does or does
\* not reach
ScoreAbove(num, den, inclusive, s80, s60, s40, rest) ==
    LET Reaches(th) == IF inclusive THEN num >= th * den ELSE num > th * den
    IN  IF Reaches(80) THEN s80 ELSE IF Reaches(60) THEN s60
        ELSE IF Reaches(40) THEN s40 ELSE rest

\* locked percentage: low from 80 up, medium from 50, high from 20,
\* critical below
LockedScore(locked_percentage) ==
    IF locked_percentage >= 80 THEN 20 ELSE IF locked_percentage >= 50 THEN 50
    ELSE IF locked_percentage >= 20 THEN 80 ELSE 100

\* C15 (SpecFactor), as stated: every band takes in its lower bound: top-5
\* percentage >= 80 scores 1.0, >= 60 0.8, >= 40 0.6, else 0.3;
\* wash_trading_score >= 0.8 scores 1.0, >= 0.6 0.8, >= 0.4 0.5, else 0.2;
\* locked percentage >= 80 scores 0.2, >= 50 0.5, >= 20 0.8, else 1.0.
C15_BandsInclusiveOnLowerBound ==
    /\ HolderBanded =>
          factorCall.result.factor.score =
              ScoreAbove(100 * LargestFiveSum(factorCall.input.balances),
                         SumSeq(factorCall.input.balances), TRUE, 100, 80, 60, 30)
    /\ FactorScored("volume_authenticity") =>
          factorCall.result.factor.score =
              ScoreAbove(factorCall.input.wash_trading_score, 1, TRUE, 100, 80, 50, 20)
    /\ LiquidityBanded =>
          factorCall.result.factor.score = LockedScore(factorCall.input.locked_percentage)

\* C15, amended: the bands of the top-5 percentage and of the
\* wash_trading_score are strict (> 80, > 60, > 40), so a value equal to a
\* threshold scores in the tier below it; the bands of the locked
\* percentage (< 20, < 50, < 80) leave each threshold to the less risky
\* tier, whose lower bound it is.
C15_BandsStrictAboveInclusiveLocked ==
    /\ HolderBanded =>
          factorCall.result.factor.score =
              ScoreAbove(100 * LargestFiveSum(factorCall.input.balances),
                         SumSeq(factorCall.input.balances), FALSE, 100, 80, 60, 30)
    /\ FactorScored("volume_authenticity") =>
          factorCall.result.factor.score =
              ScoreAbove(factorCall.input.wash_trading_score, 1, FALSE, 100, 80, 50, 20)
    /\ LiquidityBanded =>
          factorCall.result.factor.score = LockedScore(factorCall.input.locked_percentage)

\* C15 witness: the five largest holders have exactly 80 percent, and the
\* factor is scored 0.8
C15_TopFiveExactlyEighty ==
    /\ HolderBanded
    /\ 100 * LargestFiveSum(factorCall.input.balances) = 80 * SumSeq(factorCall.input.balances)
    /\ factorCall.result.factor.score = 80
    /\ factorCall.result.factor.level = "HIGH"

\* C16 (SpecFactor): for every non-empty holder list the computation
\* returns a factor whose score follows from the combined percentage of the
\* five largest holders: > 80 gives 1.0, > 60 gives 0.8, > 40 gives 0.6,
\* otherwise 0.3; one holder with 90 percent and four with 2.5 percent
\* give 1.0 (critical).
C16_ScoreFromTopFivePercentage ==
    (/\ factorCall.called /\ factorCall.name = "holder_concentration"
     /\ factorCall.input.ok /\ factorCall.input.balances # <<>>) =>
        /\ ~factorCall.result.raised
        /\ factorCall.result.factor.score =
              ScoreAbove(100 * LargestFiveSum(factorCall.input.balances),
                         SumSeq(factorCall.input.balances), FALSE, 100, 80, 60, 30)
        /\ factorCall.input.balances = <<36, 1, 1, 1, 1>> =>
              (factorCall.result.factor.score = 100
               /\ factorCall.result.factor.level = "CRITICAL")

\* C17 (SpecFactor): an empty holder list is scored 1.0 with the evidence
\* that no holder data was found, and zero total liquidity is scored 1.0
\* with the evidence that no liquidity was found, whatever the locked
\* percentage; neither computation raises.
C17_MissingDataIsMaximalRisk ==
    /\ (FactorScored("holder_concentration") /\ factorCall.input.balances = <<>>) =>
          /\ factorCall.result.factor.score = 100
          /\ factorCall.result.factor.evidence = <<"No holder data found">>
    /\ (/\ factorCall.called /\ factorCall.name = "liquidity_security"
        /\ factorCall.input.ok /\ factorCall.input.total_liquidity = 0) =>
          /\ ~factorCall.result.raised
          /\ factorCall.result.factor.score = 100
          /\ factorCall.result.factor.evidence = <<"No liquidity found">>
    /\ (/\ factorCall.called /\ factorCall.name = "holder_concentration"
        /\ factorCall.input.ok /\ factorCall.input.balances = <<>>) =>
          ~factorCall.result.raised

\* C17 witness: no liquidity, all of it reported as locked
C17_NoLiquidityFullyLocked ==
    /\ FactorScored("liquidity_security")
    /\ factorCall.input.total_liquidity = 0
    /\ factorCall.input.locked_percentage = 100
    /\ factorCall.result.factor.score = 100

\* C18 (Spec): stop_monitoring() only clears the flag: it moves no task.  A
\* task in the middle of an iteration goes on to process each remaining
\* address in turn, whatever the flag says, leaves the for-loop only after
\* the last address and into the interval sleep, and returns only out of a
\* sleep (interval or cooldown), at the loop-top test.
C18_StopTakesEffectAtLoopTop ==
    /\ [](\A t \in Tasks :
            pc[t] = "items" =>
                /\ idx[t] < Len(tokens[t])
                /\ ENABLED ProcessToken(t))
    /\ [][/\ (monitoring_active /\ ~monitoring_active') =>
                (pc' = pc /\ tokens' = tokens /\ idx' = idx /\ delay' = delay
                 /\ processed' = processed /\ last' = last)
          /\ \A t \in Tasks :
                /\ (pc[t] = "items" /\ idx'[t] # idx[t]) =>
                      (idx'[t] = idx[t] + 1 /\ last'.kind = "item"
                       /\ last'.token_address = tokens[t][idx'[t]])
                /\ (pc[t] = "items" /\ pc'[t] # "items") =>
                      (idx'[t] = Len(tokens[t]) /\ pc'[t] = "sleeping"
                       /\ delay'[t] = RISK_UPDATE_INTERVAL)
                /\ (pc[t] # "done" /\ pc'[t] = "done") =>
                      (pc[t] = "sleeping"
                       /\ delay[t] \in {RISK_UPDATE_INTERVAL, ErrorCooldown})]_vars

\* C18 witness: stop_monitoring() has run while a task had processed the
\* first of its two addresses
C18_StoppedMidIteration ==
    \E t \in Tasks :
        /\ stopRequested /\ ~monitoring_active
        /\ pc[t] = "items" /\ Len(tokens[t]) = 2 /\ idx[t] = 1

\* the tasks that are inside an iteration of the monitoring loop
Iterating == {t \in Tasks : pc[t] \in {"listing", "items"}}

\* C19 (SpecRestart): at most one task is executing an iteration of the
\* monitoring loop, whatever the sequence of start and stop calls.
C19_AtMostOneLoopIterating ==
    Cardinality(Iterating) <= 1

\* C20 (Spec): the for-loop takes the addresses one at a time in list order;
\* for each address the quick check result is stored and then
\* alert-evaluated: alerts are created for an address only when its
\* store_risk_data returned, they are alerts of that address, and when
\* store_risk_data raises the address gets no alert evaluation and no alert
\* in this cycle.
C20_StoreBeforeAlerts ==
    /\ [](last.kind = "item" =>
            /\ last.alert_evaluated <=> last.stored
            /\ ~last.stored => last.alerts = <<>>
            /\ \A i \in 1..Len(last.alerts) :
                  last.alerts[i].token_address = last.token_address
            /\ last.risk.token_address = last.token_address)
    /\ [][\A t \in Tasks :
            idx'[t] # idx[t] =>
                \/ idx'[t] = 0 /\ pc'[t] = "listing"
                \/ /\ pc[t] = "items" /\ idx'[t] = idx[t] + 1
                   /\ last'.kind = "item"
                   /\ last'.token_address = tokens[t][idx'[t]]
                   /\ Len(processed'[t]) = idx'[t]
                   /\ last'.stored <=> processed'[t][idx'[t]] = "ok"]_vars

\* C20 witness: store_risk_data raised for an address whose holder
\* concentration score would have triggered an alert, and no alert exists
C20_StoreFailedNoAlert ==
    /\ last.kind = "item" /\ ~last.stored
    /\ "holder_concentration" \in DOMAIN last.risk.factors
    /\ last.risk.factors["holder_concentration"].score > 80
    /\ last.alerts = <<>>

\* a list of two or more equal positive balances
EqualPositive(values) ==
    /\ Len(values) >= 2
    /\ values[1].m > 0
    /\ \A i \in 1..Len(values) : values[i] = values[1]

\* |a| <= n * 2^(-MantissaBits)
WithinRounding(a, n) ==
    LET m == IF a.m < 0 THEN 0 - a.m ELSE a.m
        k == a.e + MantissaBits
    IN  IF k >= 0 THEN m * Pow2(k) <= n ELSE m <= n * Pow2(0 - k)

\* C14 (SpecGiniFloat), as stated: the Gini coefficient of two or more
\* equal positive balances is exactly 0, and that of fewer than two
\* holders is 0.0.
C14_EqualBalancesGiveExactlyZero ==
    (giniCall.called /\ "floats" \in DOMAIN giniCall) =>
        /\ Len(giniCall.floats) < 2 =>
              (~giniCall.result.raised /\ giniCall.result.value = FZero)
        /\ EqualPositive(giniCall.floats) =>
              (~giniCall.result.raised /\ giniCall.result.value = FZero)

\* C14, amended: the Gini coefficient of fewer than two holders is 0.0;
\* that of n >= 2 equal positive balances is 0 up to the rounding of the
\* floating-point operations, at most n * 2^(-mantissa bits) in size, and
\* exactly 0 when the balances are integers small enough for every
\* intermediate result to be exact, as for 5 holders with 20 each.
C14_EqualBalancesGiveZeroUpToRounding ==
    (giniCall.called /\ "floats" \in DOMAIN giniCall) =>
        LET values == giniCall.floats
            n == Len(values)
            result == giniCall.result
        IN  /\ n < 2 => (~result.raised /\ result.value = FZero)
            /\ EqualPositive(values) =>
                  /\ ~result.raised
                  /\ WithinRounding(result.value, n)
                  /\ (values[1].e >= 0
                      /\ Scaled(values[1], 0) * n * (n + 1) < Pow2(MantissaBits))
                     => result.value = FZero
                  /\ (n = 5 /\ values[1] = FromInt(20)) => result.value = FZero

\* C14 witness: equal positive balances whose Gini coefficient came out
\* different from 0
C14_EqualBalancesRounded ==
    /\ giniCall.called /\ "floats" \in DOMAIN giniCall
    /\ EqualPositive(giniCall.floats)
    /\ ~giniCall.result.raised
    /\ giniCall.result.value # FZero

-----------------------------------------------------------------------------
\* two or more holders, every balance 0
ZeroSupply(holders) ==
    /\ Len(holders) >= 2
    /\ \A i \in 1..Len(holders) : holders[i].balance = 0

\* the holders analyze_token has collected in the call under way, if any
CollectedHolders ==
    IF "data" \in DOMAIN analysis /\ "holders" \in DOMAIN analysis.data
    THEN analysis.data["holders"]
    ELSE <<>>

\* C21 (SpecAnalyze): when the holders provider returns two or more holders
\* whose balances are all 0, every percentage is 0, the holder-concentration
\* computation does not raise, analyze_token does not raise a
\* ZeroDivisionError and returns a holder_concentration factor, and
\* quick_risk_check on the same answer does not return its error result.
C21_ZeroSupplyStillScored ==
    /\ ZeroSupply(CollectedHolders) =>
          /\ \A i \in 1..Len(CollectedHolders) : CollectedHolders[i].percentage.num = 0
          /\ ~holder_concentration_raises(CollectedHolders)
          /\ \A token_address \in Tokens, liquidity_resp \in MonitorLiquidityResponses :
                "error" \notin DOMAIN quick_risk_check(
                    token_address,
                    [ok |-> TRUE, balances |-> Balances(CollectedHolders)],
                    liquidity_resp).factors
    /\ analysis.pc = "raised" => analysis.error # "ZeroDivisionError"
    /\ (analysis.pc = "done" /\ ZeroSupply(analysis.result.holders)) =>
          analysis.result.risk_factors["holder_concentration"].name = "holder_concentration"

\* the parts of C21 that the code does satisfy: the percentages of a zero
\* supply are all 0
C21_ZeroSupplyPercentagesZero ==
    ZeroSupply(CollectedHolders) =>
        \A i \in 1..Len(CollectedHolders) : CollectedHolders[i].percentage.num = 0

C21_ZeroSupplyCollected == analysis.pc = "liquidity" /\ ZeroSupply(CollectedHolders)

-----------------------------------------------------------------------------
\* the factor of that name is present with a score above 0.8
FactorScoreHigh(risk, name) ==
    /\ name \in DOMAIN risk.factors
    /\ GetScore(risk.factors[name]) > 80

\* C22 (SpecAlert): whichever create_alert call raises, check_for_alerts
\* does not raise, a holder_concentration alert is attempted iff the
\* holder_concentration score is above 0.8, and a liquidity_removal alert
\* is attempted iff the liquidity_security score is above 0.8.
C22_RulesEvaluatedIndependently ==
    alertCall.called =>
        LET risk == alertCall.risk
            attempted == alertCall.result.attempted
        IN  /\ ~alertCall.result.raised
            /\ OfType(attempted, "holder_concentration") # {}
                  <=> FactorScoreHigh(risk, "holder_concentration")
            /\ OfType(attempted, "liquidity_removal") # {}
                  <=> FactorScoreHigh(risk, "liquidity_security")

\* the parts of C22 that the code does satisfy: check_for_alerts never
\* raises, and the rules are independent as long as no create_alert raises
C22_IndependentUnlessCreateAlertRaises ==
    alertCall.called =>
        LET risk == alertCall.risk
            attempted == alertCall.result.attempted
        IN  /\ ~alertCall.result.raised
            /\ alertCall.fail_at \notin 1..Len(AlertCalls("tokenA", risk)) =>
                  /\ OfType(attempted, "holder_concentration") # {}
                        <=> FactorScoreHigh(risk, "holder_concentration")
                  /\ OfType(attempted, "liquidity_removal") # {}
                        <=> FactorScoreHigh(risk, "liquidity_security")

\* the high_risk create_alert raised with both factor scores above 0.8
C22_HighRiskAlertRaised ==
    /\ alertCall.called /\ alertCall.fail_at = 1
    /\ alertCall.risk.risk_level = "critical"
    /\ FactorScoreHigh(alertCall.risk, "holder_concentration")
    /\ FactorScoreHigh(alertCall.risk, "liquidity_security")
    /\ alertCall.result.created = <<>>

-----------------------------------------------------------------------------
\* the create_alert calls of one alert type the for-loop body made
CallsOfType(item, alert_type) == Cardinality(OfType(item.alert_calls, alert_type))

\* C23 (SpecRepeat): no suppression of repeats.  Every iteration that
\* succeeds for an address invokes create_alert exactly once for each rule
\* its quick-check result satisfies and not at all for the others, whatever
\* the earlier iterations did; so over k successful iterations in a row
\* that satisfy a rule, create_alert has been invoked k times for it.
C23_EveryQualifyingIterationAlerts ==
    /\ (last.kind = "item" /\ ItemSucceeded(last)) =>
          \A alert_type \in AlertTypes :
              CallsOfType(last, alert_type) =
                  IF RuleSatisfied(last.risk, alert_type) THEN 1 ELSE 0
    /\ \A token_address \in Tokens, alert_type \in AlertTypes :
          alert_log[token_address][alert_type].invoked
              = alert_log[token_address][alert_type].streak

\* C23 witness: the second successful iteration in a row in which the
\* address meets the holder rule, with the second create_alert made
C23_AlertRepeatedInSecondIteration ==
    /\ last.kind = "item" /\ ItemSucceeded(last)
    /\ CallsOfType(last, "holder_concentration") = 1
    /\ alert_log[last.token_address]["holder_concentration"] = [streak |-> 2, invoked |-> 2]

-----------------------------------------------------------------------------
\* the factors analyze_token has computed in the call under way, or returned
ProducedFactors ==
    IF analysis.pc = "done" THEN analysis.result.risk_factors
    ELSE IF "risk_factors" \in DOMAIN analysis THEN analysis.risk_factors
    ELSE <<>>

====
